---- MODULE Spec2Model ----
(***************************************************************************)
(* Model of src/server.js (first revision, lines 1-517): the newsletter    *)
(* backend's HTTP handlers, the daily cron callback, the event source      *)
(* adapter fetchGitHubTimeline and the send loop.                          *)
(*                                                                         *)
(* Every `await` of a handler is a yield point of the single-threaded      *)
(* event loop, so every handler is cut into one action per await: an       *)
(* action is the arrival of the awaited answer (store answer, HTTP answer  *)
(* of an endpoint, transport answer, timer) together with the synchronous  *)
(* code that runs until the next await or until the response is written.   *)
(* The store (Supabase table `subscribers`), the four GitHub endpoints     *)
(* and the mail transport are the environment: their answers are chosen    *)
(* nondeterministically.                                                   *)
(*                                                                         *)
(* The handlers are modelled as written, with the transport taken as       *)
(* constructed: line 30 calls nodemailer.createTransporter, which the      *)
(* nodemailer API does not define (it is createTransport, as line 540 of   *)
(* the second revision has it).  The table has no uniqueness rule in the   *)
(* source, so an insert adds a row whatever the table holds.               *)
(***************************************************************************)
EXTENDS Integers, Sequences, FiniteSets, TLC

\* ---------------------------------------------------------------- bounds
MaxRecords == 3      \* rows the subscribers table may hold
MaxRequests == 4     \* requests / cron firings started in one behaviour

\* ------------------------------------------------------- program constants
NumEndpoints == 4    \* length of `endpoints`
MockLength == 10     \* Array.from({ length: 10 })
DelayManual == 200   \* setTimeout(resolve, 200)
DelayCron == 500     \* setTimeout(resolve, 500)

\* ---------------------------------------------------------------- inputs
\* Emails are character sequences so that `email.includes('@')` is computed.
\* A request body is [has |-> whether the email key is present, s |-> its text].
EmailA == <<"a", "@", "b">>
EmailC == <<"c", "@", "d">>
NoAtEmail == <<"a", "b">>
ValidEmails == {EmailA, EmailC}
Missing == [has |-> FALSE, s |-> <<>>]
EmailInputs ==
  [has : {TRUE}, s : ValidEmails \cup {NoAtEmail, <<>>}] \cup {Missing}

SignupProcs == {"s1", "s2"}
UnsubProcs == {"u"}
StatsProcs == {"st"}
CycleProcs == {"m", "cron"}
ProbeProcs == {"tg"}
Procs == SignupProcs \cup UnsubProcs \cup StatsProcs \cup CycleProcs \cup ProbeProcs

VARIABLES store, pc, loc, last, nreq, done200, unsubbed, fetchLog, call

vars == <<store, pc, loc, last, nreq, done200, unsubbed, fetchLog, call>>

\* ------------------------------------------------------------------ events
EventBy(k, a, rp) == [type |-> k, actor |-> a, repo |-> rp]

Event(k) == EventBy(k, "octocat", "nodejs/node")

InterestingTypes ==
  {"PushEvent", "CreateEvent", "WatchEvent", "ForkEvent",
   "PullRequestEvent", "IssuesEvent", "ReleaseEvent"}

MockEventTypes ==
  <<"PushEvent", "CreateEvent", "WatchEvent", "ForkEvent", "PullRequestEvent">>

\* Bodies a 2xx endpoint may answer with (parsed JSON arrays of events).
Bodies ==
  { <<>>,
    <<Event("GollumEvent"), Event("PushEvent")>> }

\* Outcomes of contacting one endpoint.
\*   ok       : 2xx and response.json() is an array of events
\*   notarray : 2xx and response.json() is not an array (events.filter throws)
\*   parseerr : 2xx and response.json() rejects
\*   neterr   : fetch() rejects
\*   s403, s401, other : non-2xx statuses
FailKinds == {"notarray", "parseerr", "neterr", "s403", "s401", "other"}
Responses ==
  [kind : {"ok"}, body : Bodies] \cup [kind : FailKinds, body : {<<>>}]

\* Samples of the Math.random() draws of getEnhancedMockGitHubEvents.
MockVariants == {0, 1}

getEnhancedMockGitHubEvents(v) ==
  [i \in 1..MockLength |-> Event(MockEventTypes[((i + v) % 5) + 1])]

IsInteresting(ev) == ev.type \in InterestingTypes

FilteredOnly(events) == SelectSeq(events, IsInteresting)

\* events.filter(...); return filteredEvents.length > 0 ? filteredEvents : events
FilteredOrAll(events) ==
  LET filteredEvents == SelectSeq(events, IsInteresting)
  IN IF Len(filteredEvents) > 0 THEN filteredEvents ELSE events

\* array.slice(0, n)
Slice(a, n) == SubSeq(a, 1, IF Len(a) < n THEN Len(a) ELSE n)

\* -------------------------------------------------------- digest formatter
DigestLines == 5     \* events.slice(0, 5)

\* The object literal eventTypes (the emoji that starts each phrase is left
\* out of the strings).
EventPhrases ==
  [PushEvent |-> "pushed to", CreateEvent |-> "created", WatchEvent |-> "starred",
   ForkEvent |-> "forked", IssuesEvent |-> "opened issue in",
   PullRequestEvent |-> "created pull request in", ReleaseEvent |-> "released in",
   PublicEvent |-> "made public"]

Fallback == "had activity in"

Banner == "Here are the latest GitHub activities:"

\* Names every object literal inherits from Object.prototype (a sample).
ObjectPrototypeKeys == {"constructor", "toString", "valueOf", "hasOwnProperty"}

Undefined == "undefined"

\* eventTypes[event.type]: an own property, else a member inherited from
\* Object.prototype (a function, rendered by the template literal as its
\* source text), else undefined.
PropertyOf(k) ==
  IF k \in DOMAIN EventPhrases THEN EventPhrases[k]
  ELSE IF k \in ObjectPrototypeKeys THEN "function () { [native code] }"
  ELSE Undefined

\* const action = eventTypes[event.type] || '... had activity in';
\* return `${action} ${repo} by @${actor}`   (one line of the digest)
FormatLine(ev) ==
  LET looked == PropertyOf(ev.type)
  IN [action |-> IF looked = Undefined THEN Fallback ELSE looked,
      repo |-> ev.repo, actor |-> ev.actor]

\* The digest text: the banner line, an empty line and the lines of the
\* first five events joined by newlines, kept as banner and line sequence.
formatGitHubEvents(events) ==
  LET shown == Slice(events, DigestLines)
  IN [banner |-> Banner, lines |-> [i \in 1..Len(shown) |-> FormatLine(shown[i])]]

DigestForRest(l) == formatGitHubEvents(SubSeq(l.data, l.idx, Len(l.data)))

\* const emailContent = formatGitHubEvents(githubData) in sendGitHubUpdate:
\* the text of the message handed to the transport.
DigestFor(l) == formatGitHubEvents(l.data)

\* Body of the try block of one loop iteration: what it does with the answer.
EndpointBody(r) ==
  IF r.kind = "neterr" THEN [ctl |-> "throw", events |-> <<>>]
  ELSE IF r.kind \in {"ok", "notarray", "parseerr"}        \* response.ok
    THEN IF r.kind = "ok"
           THEN [ctl |-> "return", events |-> FilteredOrAll(r.body)]
           ELSE [ctl |-> "throw", events |-> <<>>]
  ELSE IF r.kind = "s403" THEN [ctl |-> "continue", events |-> <<>>]
  ELSE IF r.kind = "s401" THEN [ctl |-> "continue", events |-> <<>>]
  ELSE [ctl |-> "next", events |-> <<>>]

CatchEndpointRethrow(o) == o

\* catch (error) { console.error(...); continue; }
CatchEndpoint(o) ==
  IF o.ctl = "throw" THEN [ctl |-> "continue", events |-> <<>>] ELSE o

AfterEndpointBreakOn403(i, r, o, v) ==
  IF o.ctl = "return"
    THEN [returned |-> TRUE, threw |-> FALSE, i |-> i, events |-> o.events, fromOk |-> TRUE]
  ELSE IF o.ctl = "throw"
    THEN [returned |-> TRUE, threw |-> TRUE, i |-> i, events |-> <<>>, fromOk |-> FALSE]
  ELSE IF i < NumEndpoints /\ r.kind # "s403"
    THEN [returned |-> FALSE, threw |-> FALSE, i |-> i + 1, events |-> <<>>, fromOk |-> FALSE]
  ELSE [returned |-> TRUE, threw |-> FALSE, i |-> i,
        events |-> getEnhancedMockGitHubEvents(v), fromOk |-> FALSE]

\* Loop control of fetchGitHubTimeline after iteration i ended with o.
AfterEndpoint(i, r, o, v) ==
  IF o.ctl = "return"
    THEN [returned |-> TRUE, threw |-> FALSE, i |-> i, events |-> o.events, fromOk |-> TRUE]
  ELSE IF o.ctl = "throw"
    THEN [returned |-> TRUE, threw |-> TRUE, i |-> i, events |-> <<>>, fromOk |-> FALSE]
  ELSE IF i < NumEndpoints
    THEN [returned |-> FALSE, threw |-> FALSE, i |-> i + 1, events |-> <<>>, fromOk |-> FALSE]
  ELSE [returned |-> TRUE, threw |-> FALSE, i |-> i,
        events |-> getEnhancedMockGitHubEvents(v), fromOk |-> FALSE]

\* One iteration of the endpoint loop: endpoint i answered r.
FetchStep(i, r, v) == AfterEndpoint(i, r, CatchEndpoint(EndpointBody(r)), v)

\* ------------------------------------------------------------------- store
Record(e, a) == [email |-> e, is_active |-> a]

RECURSIVE Matching(_, _)
\* rows of table t whose email equals e (.eq('email', email))
Matching(t, e) ==
  IF t = <<>> THEN <<>>
  ELSE IF Head(t).email = e THEN <<Head(t)>> \o Matching(Tail(t), e)
  ELSE Matching(Tail(t), e)

IsActive(rec) == rec.is_active

\* .select('email').eq('is_active', true)
ListActive(t) ==
  LET act == SelectSeq(t, IsActive)
  IN [i \in 1..Len(act) |-> act[i].email]

\* .update({ is_active: false }).eq('email', email)
Deactivate(t, e) ==
  [i \in 1..Len(t) |-> IF t[i].email = e THEN Record(e, FALSE) ELSE t[i]]

\* .select('email').eq('email', email).single(): exactly one row is data,
\* zero or several rows are the PGRST116 error with data null.
Single(rows) ==
  IF Len(rows) = 1 THEN [data |-> <<rows[1]>>, error |-> "none"]
  ELSE [data |-> <<>>, error |-> "PGRST116"]

HasAt(e) == \E i \in 1..Len(e) : e[i] = "@"

SignupInvalidMissingOnly(in) == ~in.has \/ in.s = <<>>

\* !email || !email.includes('@')
SignupInvalid(in) == (~in.has \/ in.s = <<>>) \/ ~HasAt(in.s)

\* !email
UnsubInvalid(in) == ~in.has \/ in.s = <<>>

\* ------------------------------------------------------------ local state
NoResp == [status |-> 0, body |-> [none |-> TRUE]]

NoCalls == [store |-> 0, write |-> 0, fetch |-> 0, mail |-> 0]

LocInit ==
  [email |-> <<>>, subs |-> <<>>, idx |-> 0, sent |-> 0, failed |-> 0,
   data |-> <<>>, fi |-> 0, calls |-> NoCalls, attempts |-> <<>>,
   after200 |-> FALSE, row |-> 0, storeErr |-> FALSE,
   okSeen |-> FALSE, threw |-> FALSE, mailFailed |-> FALSE, delays |-> 0,
   input |-> Missing, overlap |-> FALSE, digests |-> 0, sel |-> "none",
   between |-> FALSE, startActive |-> FALSE]

InitStores ==
  { <<>>,
    <<Record(EmailA, TRUE)>>,
    <<Record(EmailA, TRUE), Record(EmailC, TRUE)>>,
    <<Record(EmailC, FALSE), Record(EmailA, TRUE)>> }

\* No direct call of a pure function is under way.
NoCall == [fn |-> "none", arg |-> <<>>, done |-> FALSE, ret |-> <<>>]

Init ==
  /\ store \in InitStores
  /\ pc = [p \in Procs |-> "idle"]
  /\ loc = [p \in Procs |-> LocInit]
  /\ last = [proc |-> "none", resp |-> NoResp, loc |-> LocInit]
  /\ nreq = 0
  /\ done200 = {}
  /\ unsubbed = {}
  /\ fetchLog = <<>>
  /\ call = NoCall

\* ----------------------------------------------------------------- helpers
Bump(l, k) == [l EXCEPT !.calls[k] = @ + 1]

StoreAnswers == {"none", "error"}

\* The subscriber listing of a cycle may also reject (the awaited call
\* throws), which only the handler's outer catch sees.
ListAnswers == StoreAnswers \cup {"throw"}

\* What `last` keeps of the locals l of an ended request: githubData and
\* the message texts are dropped, the number of different texts handed to
\* the transport is kept.
Kept(l) ==
  [l EXCEPT !.data = <<>>, !.between = FALSE, !.startActive = FALSE,
            !.digests = Cardinality({l.attempts[i].text : i \in 1..Len(l.attempts)}),
            !.attempts = [i \in 1..Len(l.attempts) |->
                            [a \in DOMAIN l.attempts[i] \ {"text"} |-> l.attempts[i][a]]]]

\* The request of p ends: r is what it wrote (response or log line) and l
\* the handler's local variables at that moment; `last` keeps both for the
\* most recently ended request.
Respond(p, r, l) ==
  /\ last' = [proc |-> p, resp |-> r, loc |-> Kept(l)]
  /\ pc' = [pc EXCEPT ![p] = "idle"]
  /\ loc' = [loc EXCEPT ![p] = LocInit]

\* The request of p goes on to its next await at label lbl with locals l.
Goto(p, lbl, l) ==
  /\ last' = last
  /\ pc' = [pc EXCEPT ![p] = lbl]
  /\ loc' = [loc EXCEPT ![p] = l]

CanStartExclusive(p) ==
  /\ pc[p] = "idle"
  /\ nreq < MaxRequests
  /\ \A q \in Procs : pc[q] \in {"idle"}

\* A handler or the cron callback is invoked whenever its request or tick
\* arrives, whatever else is under way (MaxRequests bounds the run).
CanStart(p) ==
  /\ pc[p] = "idle"
  /\ nreq < MaxRequests
  /\ \A q \in Procs : pc[q] # "crashed"

\* ------------------------------------------------ POST /api/signup handler
SubscribedBody(e) ==
  [message |-> "Successfully subscribed!", subscriber |-> Record(e, TRUE)]

WelcomeResultPropagate(emailError, e) ==
  IF emailError
    THEN [status |-> 500, body |-> [message |-> "Internal server error"]]
    ELSE [status |-> 200, body |-> SubscribedBody(e)]

\* try { fetch; send } catch (emailError) { /* don't fail the signup */ }
\* res.json({ message, subscriber: data[0] })
WelcomeResult(emailError, e) == [status |-> 200, body |-> SubscribedBody(e)]

SelectFailedAny(code) == code # "none"

\* if (selectError && selectError.code !== 'PGRST116')
SelectFailed(code) == code \notin {"none", "PGRST116"}

\* Arrival, validation and the answer of the existence check.
SignupRequest(p, in, serr) ==
  /\ CanStart(p)
  /\ nreq' = nreq + 1
  /\ UNCHANGED <<store, done200, unsubbed, fetchLog, call>>
  /\ IF SignupInvalid(in)
       THEN /\ serr = "none"
            /\ Respond(p, [status |-> 400,
                           body |-> [message |-> "Valid email is required"]],
                       [LocInit EXCEPT !.input = in])
       ELSE LET l0 == Bump([LocInit EXCEPT !.email = in.s, !.input = in,
                                           !.after200 = in.s \in done200], "store")
                sel == IF serr = "error"
                         THEN [data |-> <<>>, error |-> "OTHER"]
                         ELSE Single(Matching(store, in.s))
                l1 == [l0 EXCEPT !.sel = sel.error]
            IN IF SelectFailed(sel.error)
                 THEN Respond(p, [status |-> 500,
                                  body |-> [message |-> "Database error during email check"]],
                              [l1 EXCEPT !.storeErr = TRUE])
               ELSE IF sel.data # <<>>
                 THEN Respond(p, [status |-> 400,
                                  body |-> [message |-> "Email already subscribed"]], l1)
               ELSE Goto(p, "s_insert", l1)

\* The answer of the insert; on success fetchGitHubTimeline is called.
SignupInsert(p, serr) ==
  /\ pc[p] = "s_insert"
  /\ UNCHANGED <<nreq, done200, unsubbed, fetchLog, call>>
  /\ LET l0 == Bump(Bump(loc[p], "store"), "write")
     IN IF serr = "error"
          THEN /\ store' = store
               /\ Respond(p, [status |-> 500,
                              body |-> [message |-> "Database error during insertion",
                                        error |-> "error", code |-> "code"]],
                          [l0 EXCEPT !.storeErr = TRUE])
          ELSE /\ Len(store) < MaxRecords
               /\ store' = Append(store, Record(loc[p].email, TRUE))
               /\ Goto(p, "s_fetch",
                       [Bump(l0, "fetch") EXCEPT !.row = Len(store) + 1, !.fi = 1])

\* An endpoint answers inside the welcome-mail try block.
SignupFetch(p, r, v) ==
  /\ pc[p] = "s_fetch"
  /\ UNCHANGED <<store, nreq, unsubbed, fetchLog, call>>
  /\ LET f == FetchStep(loc[p].fi, r, v)
         l0 == [loc[p] EXCEPT !.okSeen = (@ \/ r.kind = "ok")]
     IN IF ~f.returned
          THEN /\ Goto(p, "s_fetch", [l0 EXCEPT !.fi = f.i])
               /\ done200' = done200
        ELSE IF f.threw
          \* catch (emailError): don't fail the signup
          THEN /\ done200' = done200 \cup {l0.email}
               /\ Respond(p, WelcomeResult(TRUE, l0.email),
                          [l0 EXCEPT !.threw = TRUE, !.fi = 0, !.mailFailed = TRUE])
        ELSE /\ done200' = done200
             /\ Goto(p, "s_send", [l0 EXCEPT !.data = f.events, !.fi = 0])

\* transporter.sendMail answers; a rejection is caught by the inner catch.
SignupSend(p, ok) ==
  /\ pc[p] = "s_send"
  /\ UNCHANGED <<store, nreq, unsubbed, fetchLog, call>>
  /\ done200' = IF WelcomeResult(~ok, loc[p].email).status = 200
                  THEN done200 \cup {loc[p].email} ELSE done200
  /\ Respond(p, WelcomeResult(~ok, loc[p].email),
             [Bump(loc[p], "mail") EXCEPT !.mailFailed = ~ok,
                !.attempts = Append(@, [email |-> loc[p].email, ok |-> ok,
                                        text |-> DigestFor(loc[p])])])

\* ------------------------------------------- POST /api/unsubscribe handler
UnsubRequest(p, in, serr) ==
  /\ CanStart(p)
  /\ nreq' = nreq + 1
  /\ UNCHANGED <<done200, fetchLog, call>>
  /\ IF UnsubInvalid(in)
       THEN /\ serr = "none"
            /\ UNCHANGED <<store, unsubbed>>
            /\ Respond(p, [status |-> 400, body |-> [message |-> "Email is required"]],
                       [LocInit EXCEPT !.input = in])
       ELSE LET l0 == Bump(Bump([LocInit EXCEPT !.email = in.s, !.input = in],
                                "store"), "write")
            IN IF serr = "error"
                 THEN /\ UNCHANGED <<store, unsubbed>>
                      /\ Respond(p, [status |-> 500, body |-> [message |-> "Database error"]],
                                 [l0 EXCEPT !.storeErr = TRUE])
                 ELSE /\ store' = Deactivate(store, in.s)
                      /\ unsubbed' = IF Matching(store, in.s) # <<>>
                                       THEN unsubbed \cup {in.s} ELSE unsubbed
                      /\ Respond(p, [status |-> 200,
                                     body |-> [message |-> "Successfully unsubscribed"]], l0)

\* -------------------------------------------------- GET /api/stats handler
StatsRequest(p, serr) ==
  /\ CanStart(p)
  /\ nreq' = nreq + 1
  /\ UNCHANGED <<store, done200, unsubbed, fetchLog, call>>
  /\ LET l0 == Bump(LocInit, "store")
     IN IF serr = "error"
          THEN Respond(p, [status |-> 500, body |-> [message |-> "Database error"]],
                       [l0 EXCEPT !.storeErr = TRUE])
          ELSE Respond(p, [status |-> 200,
                           body |-> [totalActiveSubscribers |-> Len(ListActive(store))]], l0)

\* ------------------- POST /api/send-updates handler and the cron callback
\* What the cycle writes when it ends: the manual trigger answers the
\* request, the cron callback only logs (status 1 marks a log line).
NoSubscribersOut(p) ==
  IF p = "m"
    THEN [status |-> 200, body |-> [message |-> "No active subscribers found"]]
    ELSE [status |-> 1, body |-> [message |-> "No active subscribers found"]]

CycleOut(p, n, s, f) ==
  IF p = "m"
    THEN [status |-> 200,
          body |-> [message |-> "Updates sent", total |-> n, sent |-> s, failed |-> f]]
    ELSE [status |-> 1,
          body |-> [message |-> "Daily updates completed", sent |-> s, failed |-> f]]

CycleCaughtOut(p) ==
  IF p = "m"
    THEN [status |-> 500, body |-> [message |-> "Failed to send updates"]]
    ELSE [status |-> 1, body |-> [message |-> "Cron job error"]]

\* An exception leaves the callback p: nothing is written, the rejection of
\* the async callback is unhandled and the process is gone.
Escapes(p, l) ==
  /\ pc' = [pc EXCEPT ![p] = "crashed"]
  /\ loc' = [loc EXCEPT ![p] = l]
  /\ last' = last

CycleCaughtCronEscapes(p, l) ==
  IF p = "cron" THEN Escapes(p, l) ELSE Respond(p, CycleCaughtOut(p), l)

\* try { ... } catch (error) { ... }: the outer catch of the handler answers
\* 500, that of the cron callback logs; either way the cycle ends there.
CycleCaught(p, l) == Respond(p, CycleCaughtOut(p), l)

CycleDelayMs(p) == IF p = "m" THEN DelayManual ELSE DelayCron

NoSubscribersNullOnly(serr, subscribers) == serr = "error"

\* if (!subscribers || subscribers.length === 0)
NoSubscribers(serr, subscribers) == serr = "error" \/ Len(subscribers) = 0

MoreAfterFailureAbort(l) == FALSE

\* for (const subscriber of subscribers) { try {...} catch { failed++ } }:
\* after a caught failure the loop goes on while subscribers remain.
MoreAfterFailure(l) == l.idx < Len(l.subs)

\* The send loop of cycle p is under way (suspended in a send or a delay).
InSendLoop(p) == pc[p] \in {"c_send", "c_delay"}

\* Cycle q has made a send attempt and has a further one to come.
BetweenSends(q) ==
  \/ pc[q] = "c_send" /\ loc[q].idx >= 2
  \/ pc[q] = "c_delay" /\ loc[q].idx < Len(loc[q].subs)

\* Start of a cycle and the answer of the subscriber listing; the `error`
\* field of the answer is not read, a failed listing has data = null.
CycleList(p, serr) ==
  /\ CanStart(p)
  /\ nreq' = nreq + 1
  /\ UNCHANGED <<store, done200, unsubbed, fetchLog, call>>
  /\ LET l0 == [Bump(LocInit, "store") EXCEPT
                  !.overlap = \E q \in CycleProcs \ {p} : InSendLoop(q)]
         subscribers == IF serr = "none" THEN ListActive(store) ELSE <<>>
     IN IF serr = "throw"
          THEN CycleCaught(p, [l0 EXCEPT !.storeErr = TRUE])
        ELSE IF NoSubscribers(serr, subscribers)
          THEN Respond(p, NoSubscribersOut(p), [l0 EXCEPT !.storeErr = (serr = "error")])
          ELSE Goto(p, "c_fetch", [Bump(l0, "fetch") EXCEPT !.subs = subscribers, !.fi = 1])

\* The send of iteration l.idx is handed to the transport; startActive notes
\* whether its recipient is an active subscriber in the store at that moment.
StartSend(l) ==
  [l EXCEPT !.startActive =
     \E i \in 1..Len(store) : store[i].email = l.subs[l.idx] /\ store[i].is_active]

\* An endpoint answers the cycle's fetchGitHubTimeline call.
CycleFetch(p, r, v) ==
  /\ pc[p] = "c_fetch"
  /\ UNCHANGED <<store, nreq, done200, unsubbed, fetchLog, call>>
  /\ LET f == FetchStep(loc[p].fi, r, v)
         l0 == [loc[p] EXCEPT !.okSeen = (@ \/ r.kind = "ok")]
     IN IF ~f.returned
          THEN Goto(p, "c_fetch", [l0 EXCEPT !.fi = f.i])
        ELSE IF f.threw
          \* outer catch of the handler / of the callback
          THEN CycleCaught(p, [l0 EXCEPT !.threw = TRUE, !.fi = 0])
        ELSE IF Len(l0.subs) = 0
          \* the for-of loop over an empty list runs no iteration
          THEN Respond(p, CycleOut(p, 0, 0, 0), [l0 EXCEPT !.fi = 0])
        ELSE Goto(p, "c_send",
                  StartSend([l0 EXCEPT !.data = f.events, !.fi = 0, !.idx = 1,
                                       !.between = \E q \in CycleProcs \ {p} :
                                           BetweenSends(q) /\ loc[q].data # f.events]))

NextIdxRetry(l) == l.idx

\* for (const subscriber of subscribers): the iteration moves to the next
\* element of the listing.
NextIdx(l) == l.idx + 1

MoreAfterDelayStop(l) == FALSE

\* After the delay the loop goes on while subscribers remain.
MoreAfterDelay(l) == l.idx < Len(l.subs)

RecipientRelisted(l) ==
  LET now == ListActive(store)
  IN IF l.idx <= Len(now) THEN now[l.idx] ELSE l.subs[l.idx]

\* subscriber.email: the loop variable walks the array that the listing
\* returned at the start of the cycle.
Recipient(l) == l.subs[l.idx]

\* The transport answers the send to subscribers[idx].
CycleSend(p, ok) ==
  /\ pc[p] = "c_send"
  /\ UNCHANGED <<store, nreq, done200, unsubbed, fetchLog, call>>
  /\ LET l == loc[p]
         l0 == [Bump(l, "mail") EXCEPT
                  !.attempts = Append(@, [email |-> Recipient(l), ok |-> ok,
                                          text |-> DigestFor(l),
                                          active |-> l.startActive])]
     IN IF ok
          \* sent++; await new Promise(resolve => setTimeout(resolve, ...))
          THEN Goto(p, "c_delay", [l0 EXCEPT !.sent = @ + 1])
        \* catch (error) { failed++ } and the next iteration
        ELSE IF MoreAfterFailure(l)
          THEN Goto(p, "c_send",
                    StartSend([l0 EXCEPT !.failed = @ + 1, !.idx = NextIdx(l)]))
        ELSE Respond(p, CycleOut(p, Len(l.subs), l.sent, l.failed + 1),
                     [l0 EXCEPT !.failed = @ + 1, !.idx = NextIdx(l)])

\* The timer of the delay after a successful send fires.
CycleDelay(p) ==
  /\ pc[p] = "c_delay"
  /\ UNCHANGED <<store, nreq, done200, unsubbed, fetchLog, call>>
  /\ LET l == loc[p]
         l0 == [l EXCEPT !.delays = @ + CycleDelayMs(p), !.idx = NextIdx(l)]
     IN IF MoreAfterDelay(l)
          THEN Goto(p, "c_send", StartSend(l0))
          ELSE Respond(p, CycleOut(p, Len(l.subs), l.sent, l.failed), l0)

\* ---------------------------------------------- GET /api/test-github handler
ProbeRequest(p) ==
  /\ CanStart(p)
  /\ nreq' = nreq + 1
  /\ UNCHANGED <<store, done200, unsubbed, call>>
  /\ fetchLog' = <<>>
  /\ Goto(p, "t_fetch", [Bump(LocInit, "fetch") EXCEPT !.fi = 1])

\* An endpoint answers; fetchLog records every contact of this invocation.
ProbeFetch(p, r, v) ==
  /\ pc[p] = "t_fetch"
  /\ UNCHANGED <<store, nreq, done200, unsubbed, call>>
  /\ fetchLog' = Append(fetchLog, [ep |-> loc[p].fi, kind |-> r.kind, body |-> r.body])
  /\ LET f == FetchStep(loc[p].fi, r, v)
         l0 == [loc[p] EXCEPT !.okSeen = (@ \/ r.kind = "ok")]
     IN IF ~f.returned
          THEN Goto(p, "t_fetch", [l0 EXCEPT !.fi = f.i])
        ELSE IF f.threw
          THEN Respond(p, [status |-> 500, body |-> [error |-> "GitHub API test failed"]],
                       [l0 EXCEPT !.threw = TRUE, !.fi = 0])
        \* eventsCount: githubData.length, sampleEvents: githubData.slice(0, 3)
        ELSE Respond(p, [status |-> 200,
                         body |-> [eventsCount |-> Len(f.events),
                                   sampleEvents |-> Slice(f.events, 3)]],
                     [l0 EXCEPT !.data = f.events, !.fi = 0])

\* ------------------------------------------------------------ specifications
\* The subscriber directory side: signup, unsubscribe and stats requests.
NextSubscribers ==
  \/ \E p \in SignupProcs, in \in EmailInputs, serr \in StoreAnswers :
       SignupRequest(p, in, serr)
  \/ \E p \in SignupProcs, serr \in StoreAnswers : SignupInsert(p, serr)
  \/ \E p \in SignupProcs, r \in Responses, v \in MockVariants : SignupFetch(p, r, v)
  \/ \E p \in SignupProcs, ok \in BOOLEAN : SignupSend(p, ok)
  \/ \E p \in UnsubProcs, in \in EmailInputs, serr \in StoreAnswers :
       UnsubRequest(p, in, serr)
  \/ \E p \in StatsProcs, serr \in StoreAnswers : StatsRequest(p, serr)

SpecSubscribers == Init /\ [][NextSubscribers]_vars

\* The broadcast side: the manual trigger and the cron callback.
NextCycle ==
  \/ \E p \in CycleProcs, serr \in ListAnswers : CycleList(p, serr)
  \/ \E p \in CycleProcs, r \in Responses, v \in MockVariants : CycleFetch(p, r, v)
  \/ \E p \in CycleProcs, ok \in BOOLEAN : CycleSend(p, ok)
  \/ \E p \in CycleProcs : CycleDelay(p)

SpecCycle == Init /\ [][NextCycle]_vars

\* Some pending await of cycle p is answered: an endpoint answers or fails,
\* the transport accepts or rejects the message, the timer fires.
CycleProgress(p) ==
  \/ \E r \in Responses, v \in MockVariants : CycleFetch(p, r, v)
  \/ \E ok \in BOOLEAN : CycleSend(p, ok)
  \/ CycleDelay(p)

\* The broadcast side when every fetch, send and delay a cycle awaits
\* eventually completes or fails.
MaxFairRequests == 2      \* cycles started in a run of SpecCycleFair

NextCycleFair ==
  \/ \E p \in CycleProcs, serr \in ListAnswers :
       nreq < MaxFairRequests /\ CycleList(p, serr)
  \/ \E p \in CycleProcs : CycleProgress(p)

SpecCycleFair ==
  /\ Init
  /\ [][NextCycleFair]_vars
  /\ \A p \in CycleProcs : WF_vars(CycleProgress(p))

\* A broadcast cycle next to the requests that change the subscriber table
\* while it runs: the manual trigger, one signup and the unsubscribe.
NextBroadcast ==
  \/ \E serr \in ListAnswers : CycleList("m", serr)
  \/ CycleProgress("m")
  \/ \E in \in EmailInputs, serr \in StoreAnswers : SignupRequest("s1", in, serr)
  \/ \E serr \in StoreAnswers : SignupInsert("s1", serr)
  \/ \E r \in Responses, v \in MockVariants : SignupFetch("s1", r, v)
  \/ \E ok \in BOOLEAN : SignupSend("s1", ok)
  \/ \E in \in EmailInputs, serr \in StoreAnswers : UnsubRequest("u", in, serr)

SpecBroadcast == Init /\ [][NextBroadcast]_vars

\* One invocation of fetchGitHubTimeline at a time, with its contact log.
NextFetch ==
  \/ \E p \in ProbeProcs : ProbeRequest(p)
  \/ \E p \in ProbeProcs, r \in Responses, v \in MockVariants : ProbeFetch(p, r, v)

SpecFetch == Init /\ [][NextFetch]_vars

\* ------------------------------------------- direct calls of pure functions
MaxEvents == 6       \* longest event sequence handed to a pure function

EventPool ==
  { EventBy("PushEvent", "octocat", "nodejs/node"),
    EventBy("WatchEvent", "torvalds", "golang/go"),
    EventBy("PublicEvent", "defunkt", "vuejs/vue"),
    EventBy("GollumEvent", "gaearon", "facebook/react"),
    EventBy("constructor", "tj", "rust-lang/rust") }

EventSeqs == UNION {[1..k -> EventPool] : k \in 0..MaxEvents}

InitPure ==
  /\ store = <<>>
  /\ pc = [p \in Procs |-> "idle"]
  /\ loc = [p \in Procs |-> LocInit]
  /\ last = [proc |-> "none", resp |-> NoResp, loc |-> LocInit]
  /\ nreq = 0
  /\ done200 = {}
  /\ unsubbed = {}
  /\ fetchLog = <<>>
  /\ call \in [fn : {"format", "filter"}, arg : EventSeqs, done : {FALSE}, ret : {<<>>}]

\* formatGitHubEvents(arg) returns.
ApplyFormat ==
  /\ call.fn = "format" /\ ~call.done
  /\ call' = [call EXCEPT !.done = TRUE, !.ret = formatGitHubEvents(call.arg)]
  /\ UNCHANGED <<store, pc, loc, last, nreq, done200, unsubbed, fetchLog>>

\* The 2xx branch of fetchGitHubTimeline returns for the parsed body arg.
ApplyFilter ==
  /\ call.fn = "filter" /\ ~call.done
  /\ call' = [call EXCEPT !.done = TRUE, !.ret = FilteredOrAll(call.arg)]
  /\ UNCHANGED <<store, pc, loc, last, nreq, done200, unsubbed, fetchLog>>

NextPure == ApplyFormat \/ ApplyFilter

SpecPure == InitPure /\ [][NextPure]_vars

\* All handlers together.
Next == NextSubscribers \/ NextCycle \/ NextFetch

Spec == Init /\ [][Next]_vars

\* ==================================================================== claims
Range(f) == {f[i] : i \in DOMAIN f}

Failures(att) == {i \in 1..Len(att) : ~att[i].ok}

CycleEnded == last.proc \in CycleProcs

\* C1: a cycle that listed N >= 1 subscribers attempts a send to every one
\* of them, in listing order, whatever the positions of the failing sends,
\* and reports sent = N - |F|, failed = |F| (and total = N in the response of
\* POST /api/send-updates), F being the set of failed attempts.
C1_AllSubscribersAttempted ==
  (CycleEnded /\ Len(last.loc.subs) >= 1) =>
    LET n == Len(last.loc.subs)
        att == last.loc.attempts
        b == last.resp.body
    IN /\ Len(att) = n
       /\ \A i \in 1..n : att[i].email = last.loc.subs[i]
       /\ last.loc.calls.mail = n
       /\ {"sent", "failed"} \subseteq DOMAIN b
       /\ b.sent = n - Cardinality(Failures(att))
       /\ b.failed = Cardinality(Failures(att))
       /\ (last.proc = "m" =>
             last.resp.status = 200 /\ "total" \in DOMAIN b /\ b.total = n)

\* C1 witness: the manual trigger ended a cycle over two subscribers in
\* which the first send failed and the second succeeded.
C1_Witness ==
  /\ last.proc = "m"
  /\ Len(last.loc.subs) = 2
  /\ Len(last.loc.attempts) = 2
  /\ ~last.loc.attempts[1].ok
  /\ last.loc.attempts[2].ok
  /\ last.resp.body.sent = 1
  /\ last.resp.body.failed = 1

FoundNoSubscribers == CycleEnded /\ Len(last.loc.subs) = 0 /\ ~last.loc.storeErr

SignupEnded == last.proc \in SignupProcs

\* C3 as stated: a signup that starts after a signup for the same email has
\* answered 200 answers 400 'Email already subscribed' and writes nothing to
\* the store (requests whose existence check hit a store error set aside).
C3_SecondSignupRejected ==
  /\ \A p \in SignupProcs : loc[p].after200 => pc[p] = "idle"
  /\ (SignupEnded /\ last.loc.after200 /\ ~last.loc.storeErr) =>
       /\ last.resp.status = 400
       /\ last.resp.body.message = "Email already subscribed"
       /\ last.loc.calls.write = 0

\* C4 as stated: the store never holds two records with the same email.
C4_OneRecordPerEmail ==
  \A i, j \in 1..Len(store) : store[i].email = store[j].email => i = j

\* C5: fetchGitHubTimeline never throws; when no endpoint answered with a
\* parsed 2xx event list it returns the synthetic sequence of exactly 10
\* events, so a cycle with subscribers still sends to all of them and the
\* manual trigger never answers 500.
C5_FetchNeverThrows ==
  /\ \A p \in CycleProcs :
       (pc[p] \in {"c_send", "c_delay"} /\ ~loc[p].okSeen) =>
         /\ Len(loc[p].data) = MockLength
         /\ \A i \in 1..MockLength : loc[p].data[i].type \in Range(MockEventTypes)
  /\ \A p \in CycleProcs : ~loc[p].threw
  /\ (CycleEnded /\ last.loc.calls.fetch = 1) =>
       /\ ~last.loc.threw
       /\ last.resp.status # 500
       /\ last.resp.body.message # "Cron job error"
       /\ (Len(last.loc.subs) >= 1 => Len(last.loc.attempts) = Len(last.loc.subs))

\* C5 witness: the manual trigger answered 200 after a fetch in which no
\* endpoint answered 2xx, and a send of that cycle succeeded.
C5_Witness ==
  /\ last.proc = "m"
  /\ ~last.loc.okSeen
  /\ last.loc.calls.fetch = 1
  /\ last.resp.status = 200
  /\ Len(last.loc.subs) >= 1
  /\ last.resp.body.sent >= 1

ProbeEnded == last.proc = "tg" /\ pc["tg"] = "idle"

\* C6: the endpoints are contacted in list order, each at most once; a
\* contact is made only after every earlier one failed; the result comes
\* from the first endpoint that answers with a 2xx event list and nothing is
\* contacted after it; without such an answer all four are contacted.
C6_EndpointsInOrder ==
  /\ Len(fetchLog) <= NumEndpoints
  /\ \A j \in 1..Len(fetchLog) : fetchLog[j].ep = j
  /\ \A j \in 1..Len(fetchLog) : j < Len(fetchLog) => fetchLog[j].kind # "ok"
  /\ (pc["tg"] = "t_fetch" /\ fetchLog # <<>>) => fetchLog[Len(fetchLog)].kind # "ok"
  /\ ProbeEnded =>
       LET k == Len(fetchLog)
           b == last.resp.body
       IN /\ k >= 1
          /\ last.resp.status = 200
          /\ IF fetchLog[k].kind = "ok"
               THEN /\ b.eventsCount <= Len(fetchLog[k].body)
                    /\ (fetchLog[k].body # <<>> => b.eventsCount >= 1)
                    /\ Range(b.sampleEvents) \subseteq Range(fetchLog[k].body)
               ELSE /\ k = NumEndpoints
                    /\ b.eventsCount = MockLength

\* C6 witness: the third endpoint answered 2xx after a 403 and a parse error.
C6_Witness ==
  /\ ProbeEnded
  /\ Len(fetchLog) = 3
  /\ fetchLog[1].kind = "s403"
  /\ fetchLog[2].kind = "parseerr"
  /\ fetchLog[3].kind = "ok"
  /\ last.resp.body.eventsCount = 1

RowKept(l) ==
  /\ l.row \in 1..Len(store)
  /\ store[l.row].email = l.email
  /\ (store[l.row].is_active \/ l.email \in unsubbed)

\* C7: a signup whose insert succeeded answers 200 with the new record,
\* also when the welcome mail failed; the inserted row stays in the store
\* and is active unless an unsubscribe for that email deactivated it.
C7_SignupSurvivesMailFailure ==
  /\ \A p \in SignupProcs : pc[p] \in {"s_fetch", "s_send"} => RowKept(loc[p])
  /\ (SignupEnded /\ last.loc.row > 0) =>
       /\ last.resp.status = 200
       /\ last.resp.body.subscriber = Record(last.loc.email, TRUE)
       /\ RowKept(last.loc)

\* C7 witness: a signup answered 200 although the transport rejected the
\* welcome mail.
C7_Witness ==
  /\ SignupEnded
  /\ last.loc.row > 0
  /\ last.loc.calls.mail = 1
  /\ last.loc.mailFailed
  /\ last.resp.status = 200

\* C8 as stated: once an unsubscribe for e, with a record of e in the store,
\* has answered 200, no record of e is active and the subscriber listing of
\* a cycle does not contain e.
C8_UnsubscribedNotListed ==
  \A e \in unsubbed :
    /\ \A i \in 1..Len(store) : store[i].email = e => ~store[i].is_active
    /\ e \notin Range(ListActive(store))

\* C9 as stated: an HTTP handler that got a store error (other than the
\* 'no rows' answer of signup's existence check) answers 500 and ends there.
C9_StoreErrorAnswers500 ==
  (last.proc # "cron" /\ last.loc.storeErr) => last.resp.status = 500

NoAt(t) == \A i \in 1..Len(t) : t[i] # "@"

NothingCalled(l) ==
  l.calls.store = 0 /\ l.calls.write = 0 /\ l.calls.fetch = 0 /\ l.calls.mail = 0

CronStep ==
  \/ \E r \in Responses, v \in MockVariants : CycleFetch("cron", r, v)
  \/ \E ok \in BOOLEAN : CycleSend("cron", ok)
  \/ CycleDelay("cron")

\* C11: no failure inside a scheduled cycle (listing rejected or answered
\* with an error, fetch failed, send rejected) leaves the cron callback: the
\* callback is never left by an exception, a callback under way can always
\* take its next step, it ends by writing a log line, and once it has ended
\* the process still takes a manual trigger and a later cron firing.
C11_CronNeverEscapes ==
  /\ \A p \in Procs : pc[p] # "crashed"
  /\ pc["cron"] # "idle" => ENABLED CronStep
  /\ last.proc = "cron" =>
       /\ last.resp.status = 1
       /\ last.resp.body.message \in
            {"No active subscribers found", "Daily updates completed", "Cron job error"}
  /\ (last.proc = "cron" /\ nreq < MaxRequests) =>
       /\ pc["cron"] = "idle" => ENABLED CycleList("cron", "none")
       /\ pc["m"] = "idle" => ENABLED CycleList("m", "none")

\* C11 witness: the cron callback ended in its outer catch after the
\* listing was rejected, and a further request can still be taken.
C11_Witness ==
  /\ last.proc = "cron"
  /\ last.loc.storeErr
  /\ last.resp.body.message = "Cron job error"
  /\ pc["cron"] = "idle"
  /\ nreq < MaxRequests

SameText(att) == \A i, j \in 1..Len(att) : att[i].text = att[j].text

\* C12: within one cycle fetchGitHubTimeline is called exactly once, and
\* all messages the cycle hands to the transport carry the same digest text,
\* also when another cycle fetched different events between two of its sends.
C12_SameDigestInCycle ==
  /\ \A p \in CycleProcs :
       /\ loc[p].calls.fetch <= 1
       /\ InSendLoop(p) => loc[p].calls.fetch = 1
       /\ SameText(loc[p].attempts)
  /\ (CycleEnded /\ Len(last.loc.subs) >= 1) =>
       /\ last.loc.calls.fetch = 1
       /\ last.loc.digests = 1

\* C12 witness: the manual cycle has made both of its sends, and the cron
\* callback, whose fetch returned different events between those two sends,
\* is in its own send loop.
C12_Witness ==
  /\ pc["m"] = "c_delay"
  /\ Len(loc["m"].attempts) = 2
  /\ ~loc["m"].overlap
  /\ InSendLoop("cron")
  /\ loc["cron"].between
  /\ loc["cron"].data # loc["m"].data

Min(a, b) == IF a < b THEN a ELSE b

FormatEnded == call.fn = "format" /\ call.done

\* C13 as stated: for every event sequence formatGitHubEvents returns the
\* banner followed by exactly min(5, len(events)) event lines, the i-th line
\* describing the i-th event with the phrase of the lookup table for a kind
\* of the table and the fallback 'had activity in' for every other kind.
C13_FormatAsStated ==
  FormatEnded =>
    /\ call.ret.banner = Banner
    /\ Len(call.ret.lines) = Min(5, Len(call.arg))
    /\ \A i \in 1..Len(call.ret.lines) :
         LET ev == call.arg[i]
             line == call.ret.lines[i]
         IN /\ line.repo = ev.repo
            /\ line.actor = ev.actor
            /\ line.action = IF ev.type \in DOMAIN EventPhrases
                                THEN EventPhrases[ev.type]
                                ELSE "had activity in"

SevenKinds ==
  {"PushEvent", "CreateEvent", "WatchEvent", "ForkEvent", "PullRequestEvent",
   "IssuesEvent", "ReleaseEvent"}

\* Positions of the events of the seven kinds in a sequence.
KindPositions(events) == {i \in 1..Len(events) : events[i].type \in SevenKinds}

\* The j-th smallest element of a set of positions.
NthOf(P, j) == CHOOSE i \in P : Cardinality({k \in P : k < i}) = j - 1

FilterEnded == call.fn = "filter" /\ call.done

\* C20: for a 2xx answer fetchGitHubTimeline returns exactly the events of
\* the seven kinds, in their original order, when the parsed body holds at
\* least one of them, and the parsed body unchanged otherwise.
C20_FilterKeepsOrder ==
  FilterEnded =>
    LET P == KindPositions(call.arg)
    IN IF P = {}
         THEN call.ret = call.arg
         ELSE /\ Len(call.ret) = Cardinality(P)
              /\ \A j \in 1..Len(call.ret) : call.ret[j] = call.arg[NthOf(P, j)]

\* C20 witness: a body in which an event of another kind stands between two
\* events of the seven kinds was filtered down to those two.
C20_Witness ==
  /\ FilterEnded
  /\ Len(call.arg) >= 3
  /\ call.arg[1].type = "WatchEvent"
  /\ call.arg[2].type = "GollumEvent"
  /\ call.arg[3].type = "PushEvent"
  /\ Len(call.ret) >= 2
  /\ call.ret[1] = call.arg[1]
  /\ call.ret[2] = call.arg[3]

\* C14 as stated: whatever the endpoints answer, the sequence returned by
\* fetchGitHubTimeline holds at least one event, so every digest a cycle or
\* a signup hands to the transport has at least one event line.
C14_DigestNeverEmpty ==
  /\ \A p \in CycleProcs : InSendLoop(p) => Len(loc[p].data) >= 1
  /\ \A p \in SignupProcs : pc[p] = "s_send" => Len(loc[p].data) >= 1
  /\ \A p \in CycleProcs \cup SignupProcs :
       \A i \in 1..Len(loc[p].attempts) : Len(loc[p].attempts[i].text.lines) >= 1

\* C15: a signup whose existence check answered PGRST116 is never answered
\* with the store failure of that check; it goes on to the insert, and when
\* the insert succeeds it has written exactly one record, with is_active =
\* true, and answers 200 with that record.
C15_NoRowsMeansInsert ==
  /\ \A p \in SignupProcs :
       pc[p] \in {"s_fetch", "s_send"} =>
         /\ loc[p].sel = "PGRST116"
         /\ loc[p].calls.write = 1
         /\ loc[p].row \in 1..Len(store)
         /\ store[loc[p].row].email = loc[p].email
  /\ (SignupEnded /\ last.loc.sel = "PGRST116") =>
       /\ last.resp.body.message # "Database error during email check"
       /\ last.loc.calls.write = 1
       /\ IF last.loc.storeErr
            THEN /\ last.resp.status = 500
                 /\ last.resp.body.message = "Database error during insertion"
            ELSE /\ last.resp.status = 200
                 /\ last.loc.row \in 1..Len(store)
                 /\ last.resp.body.subscriber = Record(last.loc.email, TRUE)

\* C15 witness: a signup for an email without any record, whose existence
\* check answered PGRST116, answered 200 after one insert.
C15_Witness ==
  /\ SignupEnded
  /\ last.loc.sel = "PGRST116"
  /\ last.resp.status = 200
  /\ last.loc.calls.write = 1
  /\ Len(Matching(store, last.loc.email)) = 1
  /\ store[last.loc.row] = Record(last.loc.email, TRUE)

\* Sends of cycle p handed to the transport (one per iteration begun) and
\* not yet answered.
InFlight(p) == loc[p].idx - Len(loc[p].attempts)

\* C16: within one cycle the send attempts follow the listing order, every
\* listed subscriber is attempted exactly once, and a send is started only
\* after the previous send of the cycle was answered: the k-th send is under
\* way only when exactly k - 1 attempts have ended, so at most one send of
\* the cycle is in flight.
C16_SequentialSends ==
  /\ \A p \in CycleProcs :
       LET l == loc[p]
       IN /\ Len(l.attempts) <= Len(l.subs)
          /\ \A i \in 1..Len(l.attempts) : l.attempts[i].email = l.subs[i]
          /\ l.calls.mail = Len(l.attempts)
          /\ pc[p] = "c_send" => (l.idx \in 1..Len(l.subs) /\ Len(l.attempts) = l.idx - 1)
          /\ pc[p] = "c_delay" => (l.idx \in 1..Len(l.subs) /\ Len(l.attempts) = l.idx)
          /\ InSendLoop(p) => InFlight(p) \in {0, 1}
  /\ (CycleEnded /\ Len(last.loc.subs) >= 1 /\ last.loc.calls.fetch = 1) =>
       /\ Len(last.loc.attempts) = Len(last.loc.subs)
       /\ \A i \in 1..Len(last.loc.subs) : last.loc.attempts[i].email = last.loc.subs[i]
       /\ last.loc.calls.mail = Len(last.loc.subs)

\* C16 witness: the second send of a cycle over two subscribers is under
\* way after the first send failed.
C16_Witness ==
  \E p \in CycleProcs :
    /\ pc[p] = "c_send"
    /\ Len(loc[p].subs) = 2
    /\ loc[p].idx = 2
    /\ Len(loc[p].attempts) = 1
    /\ ~loc[p].attempts[1].ok
    /\ loc[p].attempts[1].email = loc[p].subs[1]

\* C17 as stated: between every two consecutive send attempts of a cycle
\* the fixed delay elapses, whether the earlier attempt succeeded or failed:
\* when the k-th send is under way the cycle has waited k - 1 delays.
C17_DelayBetweenAttempts ==
  \A p \in CycleProcs :
    pc[p] = "c_send" => loc[p].delays = (loc[p].idx - 1) * CycleDelayMs(p)

\* C18: cycles are not mutually excluded: while one cycle is suspended in
\* its send loop the other one can start; a cycle that started during the
\* send loop of the other runs to its end like any other and attempts every
\* subscriber it listed exactly once, so a subscriber listed by both is sent
\* the digest once by each.
C18_CyclesOverlap ==
  /\ \A p, q \in CycleProcs :
       (p # q /\ InSendLoop(p) /\ pc[q] = "idle" /\ nreq < MaxRequests) =>
         ENABLED CycleList(q, "none")
  /\ \A p \in CycleProcs :
       (pc[p] # "idle" /\ loc[p].overlap) => ENABLED
         (\/ \E r \in Responses, v \in MockVariants : CycleFetch(p, r, v)
          \/ \E ok \in BOOLEAN : CycleSend(p, ok)
          \/ CycleDelay(p))
  /\ (CycleEnded /\ last.loc.overlap /\ Len(last.loc.subs) >= 1) =>
       /\ Len(last.loc.attempts) = Len(last.loc.subs)
       /\ \A i \in 1..Len(last.loc.subs) : last.loc.attempts[i].email = last.loc.subs[i]

\* C18 witness: only two cycles have run, the manual one having started
\* while the cron callback was in its send loop; both have ended, the manual
\* one last, after it sent the digest to the one subscriber both listed.
C18_Witness ==
  /\ last.proc = "m"
  /\ last.loc.overlap
  /\ last.loc.subs = <<EmailA>>
  /\ last.resp.body.sent = 1
  /\ pc["cron"] = "idle"
  /\ nreq = 2

\* sent + failed equals the number of subscribers processed so far.
CountsMatch ==
  /\ \A p \in CycleProcs :
       /\ pc[p] = "c_send" => loc[p].sent + loc[p].failed = loc[p].idx - 1
       /\ pc[p] = "c_delay" => loc[p].sent + loc[p].failed = loc[p].idx
       /\ loc[p].sent + loc[p].failed = Len(loc[p].attempts)
  /\ (CycleEnded /\ Len(last.loc.subs) >= 1 /\ last.loc.calls.fetch = 1) =>
       /\ last.resp.body.sent + last.resp.body.failed = Len(last.loc.subs)
       /\ last.loc.sent + last.loc.failed = Len(last.loc.subs)
       /\ (last.proc = "m" => last.resp.body.total = Len(last.loc.subs))

\* C19: when every fetch, send and delay eventually completes or fails,
\* every cycle that started eventually ends; all along the loop sent +
\* failed is the number of subscribers processed so far, and at the end it
\* is the number of subscribers listed.
C19_CyclesTerminate ==
  /\ []CountsMatch
  /\ \A p \in CycleProcs : (pc[p] # "idle") ~> (pc[p] = "idle")

\* C19 witness: a cycle over two subscribers ended with one send succeeded
\* and one failed.
C19_Witness ==
  /\ CycleEnded
  /\ Len(last.loc.subs) = 2
  /\ last.resp.body.sent = 1
  /\ last.resp.body.failed = 1
  /\ last.loc.attempts[1].ok
  /\ ~last.loc.attempts[2].ok

\* This step is the arrival of a signup request handled by p.
SignupStarts(p) ==
  /\ pc[p] = "idle"
  /\ nreq' = nreq + 1
  /\ \/ pc'[p] # "idle"
     \/ pc' = pc /\ last'.proc = p

\* The email of the signup request that arrives in this step.
StartedEmail(p) == IF pc'[p] # "idle" THEN loc'[p].email ELSE last'.loc.email

\* C21 as stated: no step sets is_active of a record from false back to
\* true; a signup that arrives after its email has been unsubscribed answers
\* 400 'Email already subscribed' (or 500 when its existence check hit a
\* store error) and goes on to no insert; the records of an unsubscribed
\* email stay inactive, so no cycle lists that email again.
C21_NoResubscribe ==
  [][ /\ Len(store') >= Len(store)
      /\ \A i \in 1..Len(store) :
           /\ store'[i].email = store[i].email
           /\ ~store[i].is_active => ~store'[i].is_active
      /\ \A p \in SignupProcs :
           (SignupStarts(p) /\ StartedEmail(p) \in unsubbed) =>
             /\ pc'[p] = "idle"
             /\ last'.loc.calls.write = 0
             /\ \/ /\ last'.resp.status = 400
                   /\ last'.resp.body.message = "Email already subscribed"
                \/ last'.loc.storeErr /\ last'.resp.status = 500
      /\ \A e \in unsubbed' : e \notin Range(ListActive(store'))
    ]_vars

\* The send attempts of every cycle are, in order, to the subscribers of
\* the list the cycle read at its start.
SendsFollowListing ==
  /\ \A p \in CycleProcs :
       /\ Len(loc[p].attempts) <= Len(loc[p].subs)
       /\ \A i \in 1..Len(loc[p].attempts) : loc[p].attempts[i].email = loc[p].subs[i]
  /\ (CycleEnded /\ Len(last.loc.subs) >= 1 /\ last.loc.calls.fetch = 1) =>
       /\ Len(last.loc.attempts) = Len(last.loc.subs)
       /\ \A i \in 1..Len(last.loc.subs) : last.loc.attempts[i].email = last.loc.subs[i]

\* C22: a cycle works on the subscriber list it read at its start: the list
\* does not change while the cycle runs, whatever signups and unsubscribes
\* do to the store, and the cycle sends to exactly its entries, so to a
\* subscriber unsubscribed before their turn and not to one who signed up
\* after the listing.
C22_CycleUsesListedSnapshot ==
  [][ /\ \A p \in CycleProcs :
           (pc[p] \in {"c_fetch", "c_send", "c_delay"} /\ pc'[p] # "idle") =>
             loc'[p].subs = loc[p].subs
      /\ \A p \in CycleProcs :
           (pc[p] \in {"c_fetch", "c_send", "c_delay"} /\ pc'[p] = "idle") =>
             last'.loc.subs = loc[p].subs
      /\ SendsFollowListing'
    ]_vars

\* C22 witness: the manual cycle ended after it listed one subscriber, who
\* was unsubscribed before the send to them started and was sent the digest
\* all the same, while an email that signed up during the cycle is active
\* in the store and was not sent to.
C22_Witness ==
  /\ last.proc = "m"
  /\ pc["s1"] = "idle"
  /\ last.loc.subs = <<EmailA>>
  /\ Len(last.loc.attempts) = 1
  /\ last.loc.attempts[1].email = EmailA
  /\ last.loc.attempts[1].ok
  /\ ~last.loc.attempts[1].active
  /\ EmailA \in unsubbed
  /\ \E i \in 1..Len(store) : store[i] = Record(EmailC, TRUE)

====
